---- MODULE Spec2Model ----
(***************************************************************************)
(* The bulk ingestion pipeline of jobs-backend: the NDJSON and CSV import  *)
(* handlers of server.js and of its sibling variants, over a PostgreSQL    *)
(* sink (READ COMMITTED transactions, one row per identity key).           *)
(***************************************************************************)
EXTENDS Integers, Sequences, FiniteSets, TLC

\* ------------------------------------------------------------------ bounds
\* Longest input stream (lines or rows).
MaxLines == 3
\* Largest effective batch size tried.
MaxBatch == 2
\* Transient sink faults (failed connect, lost connection, deadlock abort) per run.
MaxFaults == 1

\* Longest stream that is imported twice.
MaxReimportLines == 2

\* The report carries errors.slice(0, 50), server.js 327: the 50 scaled down.
ReportLimit == 2

\* ------------------------------------------------------------ JavaScript values
\* undefined (an absent property) and null, as distinguished strings.
Undef == "<undefined>"
Null == "<null>"
\* A value that is not a string (a JSON number).
Num == "<number 7>"

\* String.prototype.trim over the strings of the model.
Trim(v) ==
    CASE v = " acme " -> "acme"
      [] v = "  " -> ""
      [] OTHER -> v

\* JavaScript truthiness: undefined, null, "" are falsy (Num 7 is truthy).
Truthy(v) == v \notin {Undef, Null, ""}

IsString(v) == v \notin {Undef, Null, Num}

\* v ?? null
Nullish(v) == IF v \in {Undef, Null} THEN Null ELSE v

\* COALESCE(a, b) over text and timestamps
Coalesce(a, b) == IF a = Null THEN b ELSE a

Min(a, b) == IF a < b THEN a ELSE b

\* ------------------------------------------------------------------ input lines
\* One decoded JSON object: its properties (Undef when absent); note is a
\* property that is no column of the jobs table.
Obj(cs, id, t, u) ==
    [kind |-> "object", company_slug |-> cs, internal_job_id |-> id,
     title |-> t, url |-> Undef, updated_at |-> u, note |-> Undef]

\* A line that is not a JSON object has no properties.
NoProps(k) ==
    [kind |-> k, company_slug |-> Undef, internal_job_id |-> Undef,
     title |-> Undef, url |-> Undef, updated_at |-> Undef, note |-> Undef]

\* COALESCE(a, b) over jsonb documents: SQL NULL is the document of kind "sqlnull".
NullJson == NoProps("sqlnull")
CoalesceJson(a, b) == IF a.kind = "sqlnull" THEN b ELSE a

BlankLine == NoProps("blank")
MalformedLine == NoProps("malformed")
NullLine == NoProps("null")

\* The lines a stream is made of.
Lines ==
    { BlankLine, MalformedLine, NullLine,
      Obj("  ", Undef, "T1", Undef),
      Obj("acme", "1", "T1", Undef),
      Obj(" acme ", "1", Undef, "2024-01-01"),
      Obj("acme", "2", "T2", Undef),
      Obj("acme", "2", Undef, "garbage") }

\* The lines that decode to records with both identity fields.
RecordLines ==
    { Obj("acme", "1", "T1", Undef),
      Obj(" acme ", "1", Undef, "2024-01-01"),
      Obj("acme", "2", "T2", Undef),
      Obj("acme", "2", Undef, "garbage") }

RECURSIVE SeqsUpTo(_, _)
SeqsUpTo(S, n) ==
    IF n = 0 THEN {<<>>}
    ELSE LET shorter == SeqsUpTo(S, n - 1)
         IN  shorter \cup {Append(s, x) : s \in {t \in shorter : Len(t) = n - 1}, x \in S}

\* ------------------------------------------------------------------ state
VARIABLES
    store,       \* the jobs table, committed: identity key -> row
    rerun,       \* FALSE in the first import of the stream, TRUE in the second
    faults,      \* transient sink faults so far in this run
    insertMode,  \* INSERT_MODE === "1": upsert; otherwise insert only
    batchSize,   \* the effective ?batch=
    stream,      \* the request body, line by line
    pos,         \* lines delivered so far
    paused,      \* rl.pause() in effect
    read, inserted, errors, buffer,
    flights,     \* the insertBatch calls of this run, in call order
    closePc,     \* "open", "draining", "responded", "crashed"
    report,      \* the body of res.json, once sent
    durable,     \* statements of this run the sink accepted and a COMMIT made durable
    storeBefore, \* the store when this run started
    faultsBefore, \* the transient faults of the first import, in the second
    reportBefore, \* the report of the first import, in the second
    query,       \* the raw ?batch= of a request whose parameters are being read
    dryRun,      \* ?dryRun= of the request
    csv,         \* POST /api/import of server.js: the handler's variables
    p2           \* POST /api/jobs/ndjson of part_002: the handler's variables

vars == <<store, rerun, faults, insertMode, batchSize, stream, pos, paused,
          read, inserted, errors, buffer, flights, closePc, report, durable, storeBefore,
          faultsBefore, reportBefore, query, dryRun, csv, p2>>

\* No request parameter is being read.
NoQuery == [handler |-> "none", pc |-> "none"]

\* A handler that serves no request.
CsvIdle == [pc |-> "idle"]
P2Idle == [pc |-> "idle"]

NoReport == [ok |-> FALSE]
EmptyTx == <<>>

\* now(): the clock is read once per import run.
Now == IF rerun THEN "now2" ELSE "now1"

\* ------------------------------------------------------------------ the sink
\* The row one INSERT proposes (EXCLUDED), server.js 280-281.
Proposed(cs, id, title, url, updated_at, payload) ==
    [company_slug |-> cs, internal_job_id |-> id, title |-> title, url |-> url,
     updated_at |-> Coalesce(updated_at, Now), payload |-> payload,
     created_at |-> Now, updated_row_at |-> Now]

\* ON CONFLICT ... DO UPDATE SET, server.js 284-287.
DoUpdate(old, excluded) ==
    [old EXCEPT !.title = excluded.title,
                !.url = excluded.url,
                !.updated_at = Coalesce(excluded.updated_at, old.updated_at),
                !.payload = CoalesceJson(excluded.payload, old.payload),
                !.updated_row_at = Now]

\* ON CONFLICT ... DO NOTHING, server.js 288.
DoNothing(old, excluded) == old

\* A variant that takes DO UPDATE in every mode.
AlwaysUpdates == TRUE
\* INSERT_MODE === "1" selects DO UPDATE, server.js 283.
DoesUpdate == insertMode

OnConflict(old, excluded) ==
    IF DoesUpdate THEN DoUpdate(old, excluded) ELSE DoNothing(old, excluded)

\* new Date(s) of a truthy s, else null (server.js 275).
ToDate(v) == IF Truthy(v) THEN v ELSE Null

\* The sink cannot cast an Invalid Date to timestamptz.
SinkRejects(updated_at) == updated_at = "garbage"

\* What a transaction with uncommitted writes tx sees under key k.
HasRow(tx, k) == k \in DOMAIN tx \/ k \in DOMAIN store
Visible(tx, k) == IF k \in DOMAIN tx THEN tx[k] ELSE store[k]

\* The statement's effect on the transaction's writes.
Upserted(tx, k, excluded) ==
    IF HasRow(tx, k)
    THEN IF DoesUpdate THEN (k :> OnConflict(Visible(tx, k), excluded)) @@ tx ELSE tx
    ELSE (k :> excluded) @@ tx

\* ------------------------------------------------------------------ insertBatch (NDJSON)
Flight(recs, isClose) ==
    [recs |-> recs, i |-> 1, pc |-> "connect", tx |-> EmptyTx, n |-> 0,
     lost |-> FALSE, isClose |-> isClose]

\* The flight holds a connection (its transaction is open or about to be).
Open(f) == flights[f].pc \in {"connect", "loop"}

IdentityOf(r) == <<Trim(r.company_slug), Trim(r.internal_job_id)>>

\* (r.company_slug || "").trim() throws a TypeError for null records and for
\* truthy values that are not strings.
ThrowsTypeError(r) ==
    \/ r.kind = "null"
    \/ Truthy(r.company_slug) /\ ~IsString(r.company_slug)
    \/ Truthy(r.internal_job_id) /\ ~IsString(r.internal_job_id)

OrEmpty(v) == IF Truthy(v) THEN Trim(v) ELSE ""

MissingIdentity(r) ==
    OrEmpty(r.company_slug) = "" \/ OrEmpty(r.internal_job_id) = ""

\* The records a flight iterates: the spliced-off array of the NDJSON handler,
\* or the live batch array the CSV handler passed.
RecsOf(fl) == IF "arr" \in DOMAIN fl THEN csv.arrays[fl.arr] ELSE fl.recs

\* The flight is about to send a statement for this key.
AtQuery(f) ==
    /\ Open(f)
    /\ flights[f].i <= Len(RecsOf(flights[f]))
    /\ ~ThrowsTypeError(RecsOf(flights[f])[flights[f].i])
    /\ ~MissingIdentity(RecsOf(flights[f])[flights[f].i])

NextKey(f) == IdentityOf(RecsOf(flights[f])[flights[f].i])

\* f's statement waits for g's transaction to end (row lock on the key).
WaitsOn(f, g) ==
    /\ f # g
    /\ AtQuery(f)
    /\ g \in DOMAIN flights
    /\ Open(g)
    /\ NextKey(f) \in DOMAIN flights[g].tx

Blocked(f) == \E g \in DOMAIN flights : WaitsOn(f, g)

RECURSIVE Reach(_, _)
Reach(S, n) ==
    IF n = 0 THEN S
    ELSE Reach(S \cup {h \in DOMAIN flights : \E g \in S : WaitsOn(g, h)}, n - 1)

\* A waits-for cycle through f: the sink aborts one statement of the cycle.
Deadlocked(f) ==
    f \in Reach({g \in DOMAIN flights : WaitsOn(f, g)}, Len(flights))

\* The promise of insertBatch settles: .then/.catch of the line handler resume
\* the reader; the close handler goes on to send the report.
ReportOf(r, ins, errs) ==
    [ok |-> TRUE, read |-> r, inserted |-> ins, errorsCount |-> Len(errs),
     errors |-> SubSeq(errs, 1, Min(ReportLimit, Len(errs)))]

Settle(f, ins, errs, rejected) ==
    IF flights[f].isClose
    THEN /\ paused' = paused
         /\ IF rejected
            THEN closePc' = "crashed" /\ report' = report
            ELSE closePc' = "responded" /\ report' = ReportOf(read, ins, errs)
    ELSE /\ paused' = FALSE
         /\ UNCHANGED <<closePc, report>>

FatalEntry == [batch |-> "fatal", error |-> "sink"]

\* pool.connect() or BEGIN fails, server.js 263-265 (when both succeed the
\* transaction is open by the time of the flight's first statement).
FlightOpenFails(f) ==
    /\ f \in DOMAIN flights
    /\ flights[f].pc = "connect"
    /\ faults < MaxFaults
    /\ faults' = faults + 1
    /\ flights' = [flights EXCEPT ![f].pc = "settled"]
    /\ \/ \* pool.connect() rejects: insertBatch rejects
          /\ errors' = IF flights[f].isClose THEN errors ELSE Append(errors, FatalEntry)
          /\ Settle(f, inserted, errors', TRUE)
       \/ \* BEGIN fails: the outer catch records the batch as fatal
          /\ errors' = Append(errors, FatalEntry)
          /\ Settle(f, inserted, errors', FALSE)
    /\ UNCHANGED <<store, rerun, insertMode, batchSize, stream, pos,
                   read, inserted, buffer, durable, storeBefore, faultsBefore, reportBefore, query,
                   dryRun, csv, p2>>

\* One iteration of the for loop, server.js 266-296.
FlightRow(f) ==
    /\ f \in DOMAIN flights
    /\ Open(f)
    /\ flights[f].i <= Len(flights[f].recs)
    /\ LET fl == flights[f]
           r == fl.recs[fl.i]
           k == IdentityOf(r)
           updated_at == ToDate(r.updated_at)
           excluded == Proposed(k[1], k[2], Nullish(r.title), Nullish(r.url), updated_at, r)
           rowEntry == [row |-> [company_slug |-> k[1], internal_job_id |-> k[2]],
                        error |-> "sink"]
       IN
       IF ThrowsTypeError(r)
       THEN \* thrown outside the inner try: ROLLBACK, fatal entry, release
            /\ flights' = [flights EXCEPT ![f].pc = "settled", ![f].tx = EmptyTx, ![f].n = 0]
            /\ errors' = Append(errors, FatalEntry)
            /\ Settle(f, inserted, errors', FALSE)
            /\ UNCHANGED <<inserted, faults>>
       ELSE IF MissingIdentity(r)
       THEN /\ flights' = [flights EXCEPT ![f].i = fl.i + 1]
            /\ errors' = Append(errors,
                   [row |-> r, error |-> "missing company_slug/internal_job_id"])
            /\ UNCHANGED <<inserted, faults, paused, closePc, report>>
       ELSE IF fl.lost
       THEN \* the connection is gone: the query rejects, ROLLBACK and BEGIN reject too
            /\ flights' = [flights EXCEPT ![f].i = fl.i + 1, ![f].pc = "loop"]
            /\ errors' = Append(errors, rowEntry)
            /\ UNCHANGED <<inserted, faults, paused, closePc, report>>
       ELSE \/ \* the sink rejects the statement: ROLLBACK; BEGIN
               /\ SinkRejects(updated_at) \/ (Deadlocked(f) /\ faults < MaxFaults)
               /\ faults' = IF SinkRejects(updated_at) THEN faults ELSE faults + 1
               /\ flights' = [flights EXCEPT ![f].i = fl.i + 1, ![f].pc = "loop",
                                             ![f].tx = EmptyTx, ![f].n = 0]
               /\ errors' = Append(errors, rowEntry)
               /\ UNCHANGED <<inserted, paused, closePc, report>>
            \/ \* the connection is lost under the statement
               /\ faults < MaxFaults
               /\ faults' = faults + 1
               /\ flights' = [flights EXCEPT ![f].i = fl.i + 1, ![f].pc = "loop",
                                             ![f].tx = EmptyTx, ![f].n = 0, ![f].lost = TRUE]
               /\ errors' = Append(errors, rowEntry)
               /\ UNCHANGED <<inserted, paused, closePc, report>>
            \/ \* the sink accepts the statement
               /\ ~SinkRejects(updated_at)
               /\ ~Blocked(f)
               /\ flights' = [flights EXCEPT ![f].i = fl.i + 1, ![f].pc = "loop",
                                             ![f].tx = Upserted(fl.tx, k, excluded),
                                             ![f].n = fl.n + 1]
               /\ inserted' = inserted + 1
               /\ UNCHANGED <<errors, faults, paused, closePc, report>>
    /\ UNCHANGED <<store, rerun, insertMode, batchSize, stream, pos,
                   read, buffer, durable, storeBefore, faultsBefore, reportBefore, query,
                   dryRun, csv, p2>>

\* COMMIT, the outer catch and finally, server.js 297-303.
FlightCommit(f) ==
    /\ f \in DOMAIN flights
    /\ Open(f)
    /\ flights[f].i > Len(flights[f].recs)
    /\ \/ /\ ~flights[f].lost
          /\ store' = flights[f].tx @@ store
          /\ durable' = durable + flights[f].n
          /\ errors' = errors
          /\ faults' = faults
       \/ \* COMMIT fails: ROLLBACK, fatal entry
          /\ flights[f].lost \/ faults < MaxFaults
          /\ faults' = IF flights[f].lost THEN faults ELSE faults + 1
          /\ errors' = Append(errors, FatalEntry)
          /\ UNCHANGED <<store, durable>>
    /\ flights' = [flights EXCEPT ![f].pc = "settled", ![f].tx = EmptyTx, ![f].n = 0]
    /\ Settle(f, inserted, errors', FALSE)
    /\ UNCHANGED <<rerun, insertMode, batchSize, stream, pos,
                   read, inserted, buffer, storeBefore, faultsBefore, reportBefore, query,
                   dryRun, csv, p2>>

\* ------------------------------------------------------------------ the line reader
\* rl.on("line"), server.js 309-323, on the handler's variables
\* h = [read, errors, buffer, flights, paused].
LineHandler(h, line) ==
    IF line.kind = "blank" THEN h
    ELSE LET rd == h.read + 1 IN
         IF line.kind = "malformed"
         THEN [h EXCEPT !.read = rd,
                        !.errors = Append(h.errors, [row |-> rd, error |-> "invalid JSON"])]
         ELSE IF Len(h.buffer) + 1 >= batchSize
         THEN [h EXCEPT !.read = rd,
                        !.paused = TRUE,
                        !.flights = Append(h.flights, Flight(Append(h.buffer, line), FALSE)),
                        !.buffer = <<>>]
         ELSE [h EXCEPT !.read = rd, !.buffer = Append(h.buffer, line)]

\* The lines of one chunk are emitted one after the other, in one turn of the
\* event loop: rl.pause() does not hold back the lines already read.
RECURSIVE EmitLines(_, _)
EmitLines(h, lines) ==
    IF lines = <<>> THEN h
    ELSE EmitLines(LineHandler(h, Head(lines)), Tail(lines))

\* A chunk of n lines arrives; a chunk is read only while the input flows.
DataEvent(n) ==
    /\ closePc = "open"
    /\ ~paused
    /\ pos + n <= Len(stream)
    /\ LET h == EmitLines([read |-> read, errors |-> errors, buffer |-> buffer,
                           flights |-> flights, paused |-> paused],
                          SubSeq(stream, pos + 1, pos + n))
       IN  /\ read' = h.read
           /\ errors' = h.errors
           /\ buffer' = h.buffer
           /\ flights' = h.flights
           /\ paused' = h.paused
    /\ pos' = pos + n
    /\ UNCHANGED <<store, rerun, faults, insertMode, batchSize, stream, inserted,
                   closePc, report, durable, storeBefore, faultsBefore, reportBefore, query,
                   dryRun, csv, p2>>

\* rl.once("close"), server.js 325-328: the input ended while flowing.
CloseEvent ==
    /\ closePc = "open"
    /\ pos = Len(stream)
    /\ ~paused
    /\ IF buffer # <<>>
       THEN /\ flights' = Append(flights, Flight(buffer, TRUE))
            /\ buffer' = <<>>
            /\ closePc' = "draining"
            /\ report' = report
       ELSE /\ closePc' = "responded"
            /\ report' = ReportOf(read, inserted, errors)
            /\ UNCHANGED <<flights, buffer>>
    /\ UNCHANGED <<store, rerun, faults, insertMode, batchSize, stream, pos,
                   paused, read, inserted, errors, durable, storeBefore, faultsBefore, reportBefore, query,
                   dryRun, csv, p2>>

\* Every flush of the run has settled.
Quiet == \A f \in DOMAIN flights : flights[f].pc = "settled"

\* The same stream is posted a second time, once the first import is over.
Reimport ==
    /\ ~rerun
    /\ closePc = "responded"
    /\ Quiet
    /\ rerun' = TRUE
    /\ storeBefore' = store
    /\ faultsBefore' = faults
    /\ faults' = 0
    /\ pos' = 0
    /\ paused' = FALSE
    /\ read' = 0
    /\ inserted' = 0
    /\ errors' = <<>>
    /\ buffer' = <<>>
    /\ flights' = <<>>
    /\ closePc' = "open"
    /\ report' = NoReport
    /\ durable' = 0
    /\ UNCHANGED <<store, insertMode, batchSize, stream, reportBefore, query, dryRun, csv, p2>>

\* A fresh import of a stream of lines drawn from L, in the given modes.
InitWith(L, len, modes) ==
    /\ store = <<>>
    /\ rerun = FALSE
    /\ faults = 0
    /\ insertMode \in modes
    /\ batchSize \in 1..MaxBatch
    /\ stream \in SeqsUpTo(L, len) \ {<<>>}
    /\ pos = 0
    /\ paused = FALSE
    /\ read = 0
    /\ inserted = 0
    /\ errors = <<>>
    /\ buffer = <<>>
    /\ flights = <<>>
    /\ closePc = "open"
    /\ report = NoReport
    /\ durable = 0
    /\ storeBefore = <<>>
    /\ faultsBefore = 0
    /\ reportBefore = NoReport
    /\ query = NoQuery
    /\ dryRun = FALSE
    /\ csv = CsvIdle
    /\ p2 = P2Idle

Init == InitWith(Lines, MaxLines, BOOLEAN)

\* The steps of one POST /api/jobs/ndjson.
Next ==
    \/ \E n \in 1..MaxLines : DataEvent(n)
    \/ CloseEvent
    \/ \E f \in 1..MaxLines : FlightOpenFails(f)
    \/ \E f \in 1..MaxLines : FlightRow(f)
    \/ \E f \in 1..MaxLines : FlightCommit(f)

Spec == Init /\ [][Next]_vars

\* The same stream imported twice, one import after the other.
InitReimport == InitWith(RecordLines, MaxReimportLines, BOOLEAN)

NextReimport == Next \/ Reimport

SpecReimport == InitReimport /\ [][NextReimport]_vars

\* The same stream is posted again with the largest batch size, against the
\* store the first import started from.
RerunWithMaxBatch ==
    /\ ~rerun
    /\ closePc = "responded"
    /\ Quiet
    /\ rerun' = TRUE
    /\ batchSize' = MaxBatch
    /\ store' = storeBefore
    /\ reportBefore' = report
    /\ faultsBefore' = faults
    /\ faults' = 0
    /\ pos' = 0
    /\ paused' = FALSE
    /\ read' = 0
    /\ inserted' = 0
    /\ errors' = <<>>
    /\ buffer' = <<>>
    /\ flights' = <<>>
    /\ closePc' = "open"
    /\ report' = NoReport
    /\ durable' = 0
    /\ UNCHANGED <<storeBefore, insertMode, stream, query, dryRun, csv, p2>>

InitBatchSizes == InitWith(Lines, MaxReimportLines, {TRUE}) /\ batchSize = 1

NextBatchSizes == Next \/ RerunWithMaxBatch

SpecBatchSizes == InitBatchSizes /\ [][NextBatchSizes]_vars

\* req.once("error"), server.js 330-332: the request is cancelled before its
\* body is complete. The handler records the error and does nothing else; the
\* body never ends, so the reader delivers no further line and no close to the
\* handlers above, or, where the reader re-emits the error of its input, the
\* process ends on the unhandled 'error' event of rl.
ReqError ==
    /\ closePc = "open"
    /\ pos < Len(stream)
    /\ closePc' \in {"cancelled", "crashed"}
    /\ errors' = Append(errors, [stream |-> "request", error |-> "aborted"])
    /\ UNCHANGED <<store, rerun, faults, insertMode, batchSize, stream, pos, paused, read,
                   inserted, buffer, flights, report, durable, storeBefore, faultsBefore,
                   reportBefore, query, dryRun, csv, p2>>

\* One POST /api/jobs/ndjson of server.js with its Content-Type header; a
\* record may carry a property that is no column of the jobs table.
InitTyped ==
    /\ rerun = FALSE
    /\ store = <<>>
    /\ faults = 0
    /\ insertMode = TRUE
    /\ batchSize \in 1..MaxBatch
    /\ stream \in SeqsUpTo(Lines \cup {[Obj("acme", "2", "T2", Undef) EXCEPT !.note = "n"]},
                          MaxReimportLines) \ {<<>>}
    /\ pos = 0
    /\ paused = FALSE
    /\ read = 0
    /\ inserted = 0
    /\ errors = <<>>
    /\ buffer = <<>>
    /\ flights = <<>>
    /\ closePc = "open"
    /\ report = NoReport
    /\ durable = 0
    /\ storeBefore = <<>>
    /\ faultsBefore = 0
    /\ reportBefore = NoReport
    /\ query \in {[handler |-> "server.js", pc |-> "none", ct |-> c] :
                    c \in {"application/x-ndjson", "application/json"}}
    /\ dryRun = FALSE
    /\ csv = CsvIdle
    /\ p2 = P2Idle

NextTyped ==
    \/ Next
    \/ ReqError

\* The handlers run whenever they can: the event loop serves the events of the
\* reader and the sink answers every statement.
SpecTyped == InitTyped /\ [][NextTyped]_vars /\ WF_vars(Next)

\* ------------------------------------------------------------------ part_002: NDJSON
\* The columns of public.jobs a record can name (loadJobsSchema).
JobsColumns == {"company_slug", "internal_job_id", "title", "url", "updated_at"}

\* Light normalization of one property, part_002 262-265.
P2Normalize(v) ==
    IF v = "" THEN Null
    ELSE IF IsString(v) THEN Trim(v)
    ELSE v

P2NormalizeObj(obj) ==
    [c \in DOMAIN obj |-> IF c \in JobsColumns THEN P2Normalize(obj[c]) ELSE obj[c]]

\* coerceForColumn for text and timestamp columns, part_002 62-102.
CoerceForColumn(v) == IF v \in {Undef, Null, ""} THEN Null ELSE v

\* A variant that keeps every key of the record.
P2ColsUnfiltered(r) == {k \in DOMAIN r \ {"kind"} : r[k] # Undef}
\* Object.keys(r).filter(k => columns.has(k)), part_002 144.
P2Cols(r) == {k \in DOMAIN r \ {"kind"} : r[k] # Undef /\ k \in JobsColumns}

\* The row buildInsert proposes: the columns the record names, coerced; the
\* others take the table's defaults (server.js 31-42).
P2Proposed(r) ==
    [company_slug |-> CoerceForColumn(r.company_slug),
     internal_job_id |-> CoerceForColumn(r.internal_job_id),
     title |-> CoerceForColumn(r.title),
     url |-> CoerceForColumn(r.url),
     updated_at |-> IF r.updated_at = Undef THEN Now ELSE CoerceForColumn(r.updated_at),
     payload |-> NullJson,
     created_at |-> Now,
     updated_row_at |-> Now]

\* NOT NULL on the identity columns, and the timestamptz cast.
P2SinkRejects(row) ==
    \/ row.company_slug = Null
    \/ row.internal_job_id = Null
    \/ SinkRejects(row.updated_at)

\* insert ... on conflict do nothing, part_002 122-126.
P2Inserted(tx, row) ==
    LET k == <<row.company_slug, row.internal_job_id>>
    IN  IF HasRow(tx, k) THEN tx ELSE (k :> row) @@ tx

P2Start ==
    [pc |-> "connect", batch |-> <<>>, total |-> 0, errors |-> <<>>,
     tx |-> EmptyTx, n |-> 0, aborted |-> FALSE, lost |-> FALSE,
     i |-> 1, okCount |-> 0, errs |-> <<>>, final |-> FALSE,
     schema |-> "unloaded", cols |-> {}]

P2Failure == [ok |-> FALSE, status |-> 500]

\* catch: rollback, err(res, 500), part_002 276-278.
P2Fail ==
    [p2 EXCEPT !.pc = "done", !.tx = EmptyTx, !.n = 0]

\* pool.connect() and begin, part_002 235-249.
P2Begin ==
    /\ p2.pc = "connect"
    /\ \/ /\ p2' = [p2 EXCEPT !.pc = "read"]
          /\ UNCHANGED <<faults, report>>
       \/ /\ faults < MaxFaults
          /\ faults' = faults + 1
          /\ p2' = P2Fail
          /\ report' = P2Failure
    /\ UNCHANGED <<store, rerun, insertMode, batchSize, stream, pos, paused, read,
                   inserted, errors, buffer, flights, closePc, durable, storeBefore,
                   faultsBefore, reportBefore, query, dryRun, csv>>

\* flush() up to the call of upsertMany, part_002 236-242, on the handler's
\* variables h.
P2Flush(h, final) ==
    IF h.batch = <<>> \/ dryRun
    THEN [h EXCEPT !.total = h.total + Len(h.batch), !.batch = <<>>,
                   !.pc = IF final THEN "commit" ELSE "read"]
    ELSE [h EXCEPT !.pc = IF h.schema = "loaded" THEN "upsert" ELSE "schema",
                   !.i = 1, !.okCount = 0, !.errs = <<>>, !.final = final]

\* One turn of the for await loop, part_002 251-268.
P2Line ==
    /\ p2.pc = "read"
    /\ pos < Len(stream)
    /\ pos' = pos + 1
    /\ LET line == stream[pos + 1] IN
       IF line.kind = "blank"
       THEN UNCHANGED <<p2, report>>
       ELSE IF line.kind = "malformed"
       THEN /\ p2' = [p2 EXCEPT !.errors = Append(p2.errors, [error |-> "bad JSON line"])]
            /\ report' = report
       ELSE IF line.kind = "null"
       THEN \* Object.keys(null) throws
            /\ p2' = P2Fail
            /\ report' = P2Failure
       ELSE LET h == [p2 EXCEPT !.batch = Append(p2.batch, P2NormalizeObj(line))]
            IN  /\ p2' = IF Len(h.batch) >= batchSize THEN P2Flush(h, FALSE) ELSE h
                /\ report' = report
    /\ UNCHANGED <<store, rerun, faults, insertMode, batchSize, stream, paused, read,
                   inserted, errors, buffer, flights, closePc, durable, storeBefore,
                   faultsBefore, reportBefore, query, dryRun, csv>>

\* The input is exhausted: the last flush, part_002 270.
P2EndOfInput ==
    /\ p2.pc = "read"
    /\ pos = Len(stream)
    /\ p2' = P2Flush(p2, TRUE)
    /\ UNCHANGED <<store, rerun, faults, insertMode, batchSize, stream, pos, paused, read,
                   inserted, errors, buffer, flights, closePc, report, durable, storeBefore,
                   faultsBefore, reportBefore, query, dryRun, csv>>

\* loadJobsSchema, part_002 43-55 and 135: the descriptor is read once and
\* cached in JOBS_SCHEMA; when the query fails upsertMany rejects, and the
\* handler rolls back and answers 500.
P2LoadSchema ==
    /\ p2.pc = "schema"
    /\ \/ /\ p2' = [p2 EXCEPT !.pc = "upsert", !.schema = "loaded"]
          /\ UNCHANGED <<faults, report>>
       \/ /\ faults < MaxFaults
          /\ faults' = faults + 1
          /\ p2' = P2Fail
          /\ report' = P2Failure
    /\ UNCHANGED <<store, rerun, insertMode, batchSize, stream, pos, paused, read,
                   inserted, errors, buffer, flights, closePc, durable, storeBefore,
                   faultsBefore, reportBefore, query, dryRun, csv>>

\* One iteration of the loop of upsertMany, part_002 141-155.
P2Row ==
    /\ p2.pc = "upsert"
    /\ p2.i <= Len(p2.batch)
    /\ LET r == p2.batch[p2.i]
           row == P2Proposed(r)
           failed == [p2 EXCEPT !.i = p2.i + 1, !.cols = P2Cols(r),
                                !.errs = Append(p2.errs, [row |-> p2.i, error |-> "sink"])]
       IN
       IF P2Cols(r) = {}
       THEN \* buildInsert returns null
            /\ p2' = [p2 EXCEPT !.i = p2.i + 1]
            /\ faults' = faults
       ELSE IF p2.aborted \/ p2.lost
       THEN \* the transaction is aborted: the sink refuses every statement
            /\ p2' = failed
            /\ faults' = faults
       ELSE \/ /\ P2SinkRejects(row)
               /\ p2' = [failed EXCEPT !.aborted = TRUE]
               /\ faults' = faults
            \/ /\ faults < MaxFaults
               /\ faults' = faults + 1
               /\ p2' = [failed EXCEPT !.lost = TRUE]
            \/ /\ ~P2SinkRejects(row)
               /\ p2' = [p2 EXCEPT !.i = p2.i + 1, !.okCount = p2.okCount + 1,
                                   !.cols = P2Cols(r),
                                   !.n = p2.n + 1, !.tx = P2Inserted(p2.tx, row)]
               /\ faults' = faults
    /\ UNCHANGED <<store, rerun, insertMode, batchSize, stream, pos, paused, read,
                   inserted, errors, buffer, flights, closePc, report, durable, storeBefore,
                   faultsBefore, reportBefore, query, dryRun, csv>>

\* upsertMany returns: the rest of flush, part_002 243-245.
P2Flushed ==
    /\ p2.pc = "upsert"
    /\ p2.i > Len(p2.batch)
    /\ p2' = [p2 EXCEPT !.total = p2.total + p2.okCount,
                        !.errors = p2.errors \o p2.errs,
                        !.batch = <<>>,
                        !.pc = IF p2.final THEN "commit" ELSE "read"]
    /\ UNCHANGED <<store, rerun, faults, insertMode, batchSize, stream, pos, paused, read,
                   inserted, errors, buffer, flights, closePc, report, durable, storeBefore,
                   faultsBefore, reportBefore, query, dryRun, csv>>

P2Report == [ok |-> TRUE, processed |-> p2.total, errors |-> p2.errors, dryRun |-> dryRun]

\* commit or rollback, and the response, part_002 272-278.
P2Commit ==
    /\ p2.pc = "commit"
    /\ IF dryRun
       THEN \* rollback
            /\ p2' = [p2 EXCEPT !.pc = "done", !.tx = EmptyTx, !.n = 0]
            /\ report' = IF p2.lost THEN P2Failure ELSE P2Report
            /\ UNCHANGED <<store, durable, faults>>
       ELSE IF p2.lost
       THEN /\ p2' = P2Fail
            /\ report' = P2Failure
            /\ UNCHANGED <<store, durable, faults>>
       ELSE IF p2.aborted
       THEN \* COMMIT of an aborted transaction rolls it back and succeeds
            /\ p2' = [p2 EXCEPT !.pc = "done", !.tx = EmptyTx, !.n = 0]
            /\ report' = P2Report
            /\ UNCHANGED <<store, durable, faults>>
       ELSE \/ /\ store' = p2.tx @@ store
               /\ durable' = durable + p2.n
               /\ p2' = [p2 EXCEPT !.pc = "done", !.tx = EmptyTx, !.n = 0]
               /\ report' = P2Report
               /\ faults' = faults
            \/ /\ faults < MaxFaults
               /\ faults' = faults + 1
               /\ p2' = P2Fail
               /\ report' = P2Failure
               /\ UNCHANGED <<store, durable>>
    /\ UNCHANGED <<rerun, insertMode, batchSize, stream, pos, paused, read,
                   inserted, errors, buffer, flights, closePc, storeBefore,
                   faultsBefore, reportBefore, query, dryRun, csv>>

\* A store that already holds one job.
SeedRow == Proposed("acme", "1", "T0", Null, "2023-12-31", NullJson)
SeedStore == <<"acme", "1">> :> [SeedRow EXCEPT !.created_at = "now0", !.updated_row_at = "now0"]

\* One POST /api/jobs/ndjson of part_002, of a stream of up to len lines of L.
InitP2With(L, len) ==
    /\ rerun = FALSE
    /\ store \in {<<>>, SeedStore}
    /\ storeBefore = store
    /\ faults = 0
    /\ insertMode = TRUE
    /\ batchSize \in 1..MaxBatch
    /\ stream \in SeqsUpTo(L, len) \ {<<>>}
    /\ pos = 0
    /\ paused = FALSE
    /\ read = 0
    /\ inserted = 0
    /\ errors = <<>>
    /\ buffer = <<>>
    /\ flights = <<>>
    /\ closePc = "idle"
    /\ report = NoReport
    /\ durable = 0
    /\ faultsBefore = 0
    /\ reportBefore = NoReport
    /\ query = NoQuery
    /\ dryRun \in BOOLEAN
    /\ csv = CsvIdle
    /\ p2 = P2Start

InitP2 == InitP2With(Lines, MaxLines)

NextP2 ==
    \/ P2Begin
    \/ P2Line
    \/ P2EndOfInput
    \/ P2LoadSchema
    \/ P2Row
    \/ P2Flushed
    \/ P2Commit

SpecP2 == InitP2 /\ [][NextP2]_vars

\* The stream of a finished dry run is posted again with dryRun=false.
P2RealRun ==
    /\ ~rerun
    /\ dryRun
    /\ p2.pc = "done"
    /\ rerun' = TRUE
    /\ dryRun' = FALSE
    /\ reportBefore' = report
    /\ faultsBefore' = faults
    /\ storeBefore' = store
    /\ faults' = 0
    /\ pos' = 0
    /\ report' = NoReport
    /\ durable' = 0
    /\ p2' = [P2Start EXCEPT !.schema = p2.schema]
    /\ UNCHANGED <<store, insertMode, batchSize, stream, paused, read, inserted, errors,
                   buffer, flights, closePc, query, csv>>

NextDryThenReal == NextP2 \/ P2RealRun

SpecDryThenReal == InitP2 /\ [][NextDryThenReal]_vars

\* Streams with records that carry a property unknown to the jobs table.
InitSchema ==
    InitP2With({ [Obj("acme", "2", "T2", Undef) EXCEPT !.note = "n"],
                 [NoProps("object") EXCEPT !.note = "n"],
                 Obj("acme", "1", "T1", Undef),
                 Obj("acme", "2", Undef, "garbage"),
                 MalformedLine }, MaxLines)

SpecSchema == InitSchema /\ [][NextP2]_vars

\* ------------------------------------------------------------------ server.js: CSV
\* The rows flushed together (1000 in server.js 167).
BATCH == 2

\* The columns a CSV header can name.
FullHeader == {"company_slug", "internal_job_id", "title", "updated_at"}
Headers == {FullHeader, FullHeader \ {"company_slug"}}

\* The data rows of a CSV body, as the parser yields them under a full header.
CsvRows ==
    { Obj("acme", "1", "T1", ""),
      Obj("acme", "1", "", "2024-01-01"),
      Obj("acme", "2", "T2", "garbage"),
      Obj("", "2", "T2", "") }

\* columns: true maps each row by the header: a column the header lacks is absent.
Mask(row, h) ==
    [c \in DOMAIN row |-> IF c \in FullHeader \ h THEN Undef ELSE row[c]]

\* get(row, key), server.js 122-125.
Get(v) ==
    LET s == Trim(IF v \in {Undef, Null} THEN "" ELSE v)
    IN  IF s = "" THEN Null ELSE s

\* The normalized record of a row, server.js 177-210.
CsvRec(row) ==
    [kind |-> "object",
     company_slug |-> Get(row.company_slug),
     internal_job_id |-> Get(row.internal_job_id),
     title |-> Get(row.title),
     url |-> Get(row.url),
     updated_at |-> Get(row.updated_at)]

\* insertBatch(batch) of the CSV handler iterates the array it was given.
CsvFlight(arr, isEnd) ==
    [arr |-> arr, i |-> 1, pc |-> "connect", tx |-> EmptyTx, n |-> 0,
     lost |-> FALSE, isClose |-> isEnd]

CsvStart(h) ==
    [pc |-> "open", header |-> h, parsed |-> 0, previews |-> <<>>,
     arrays |-> <<<<>>>>, batch |-> 1, promise |-> "pending"]

\* A variant without the dry-run guard.
NeverSkipsInsert == FALSE
\* The dry-run guard of insertBatch, server.js 128.
SkipsInsert == dryRun

\* One turn of the while loop of the readable handler, server.js 173-226, on
\* the handler's variables h = [c, flights, hit].
CsvRowHandler(h, row) ==
    LET rec == CsvRec(row)
        c1 == [h.c EXCEPT !.parsed = h.c.parsed + 1,
                          !.previews = IF Len(h.c.previews) < 2
                                       THEN Append(h.c.previews, rec)
                                       ELSE h.c.previews]
    IN  IF ~Truthy(rec.company_slug) \/ ~Truthy(rec.internal_job_id)
        THEN [h EXCEPT !.c = c1]
        ELSE LET c2 == [c1 EXCEPT !.arrays[c1.batch] = Append(c1.arrays[c1.batch], rec)]
             IN  IF Len(c2.arrays[c2.batch]) < BATCH
                 THEN [h EXCEPT !.c = c2]
                 ELSE IF SkipsInsert
                 THEN [h EXCEPT !.c = c2, !.hit = TRUE]
                 ELSE [h EXCEPT !.c = c2,
                                !.flights = Append(h.flights, CsvFlight(c2.batch, FALSE))]

RECURSIVE CsvReadRows(_, _)
CsvReadRows(h, rows) ==
    IF rows = <<>> THEN h
    ELSE CsvReadRows(CsvRowHandler(h, Head(rows)), Tail(rows))

\* batch = [], server.js 222.
FreshBatch(c) ==
    [c EXCEPT !.arrays = Append(c.arrays, <<>>), !.batch = Len(c.arrays) + 1]

\* A readable event with n rows to read, server.js 171-227. parser.pause() has
\* no effect on a stream read through its readable event.
CsvReadable(n) ==
    /\ csv.pc = "open"
    /\ pos + n <= Len(stream)
    /\ LET h == CsvReadRows([c |-> csv, flights |-> flights, hit |-> FALSE],
                            SubSeq(stream, pos + 1, pos + n))
       IN  /\ csv' = IF h.hit THEN FreshBatch(h.c) ELSE h.c
           /\ flights' = h.flights
    /\ pos' = pos + n
    /\ UNCHANGED <<store, rerun, faults, insertMode, batchSize, stream, paused, read,
                   inserted, errors, buffer, closePc, report, durable, storeBefore,
                   faultsBefore, reportBefore, query, dryRun, p2>>

\* res.json / res.status(400).json, server.js 239-249.
CsvReport(c) ==
    [ok |-> TRUE, parsed |-> c.parsed, dryRun |-> dryRun,
     previewCount |-> Len(c.previews), preview |-> c.previews,
     insert |-> IF dryRun THEN "skipped" ELSE "done"]

CsvFailure == [ok |-> FALSE, status |-> 400]

\* resolve() or reject(e): only the first one settles the promise.
CsvSettlePromise(c, outcome) ==
    IF c.promise = "pending" THEN [c EXCEPT !.promise = outcome] ELSE c

CsvResponse(c) ==
    IF csv.promise = "pending" /\ c.promise = "resolved" THEN CsvReport(c)
    ELSE IF csv.promise = "pending" /\ c.promise = "rejected" THEN CsvFailure
    ELSE report

\* The end event, server.js 228-235.
CsvEnd ==
    /\ csv.pc = "open"
    /\ pos = Len(stream)
    /\ LET c == [csv EXCEPT !.pc = "ended"] IN
       IF c.arrays[c.batch] # <<>> /\ ~SkipsInsert
       THEN /\ flights' = Append(flights, CsvFlight(c.batch, TRUE))
            /\ csv' = c
            /\ report' = report
       ELSE /\ csv' = CsvSettlePromise(c, "resolved")
            /\ report' = CsvResponse(csv')
            /\ flights' = flights
    /\ UNCHANGED <<store, rerun, faults, insertMode, batchSize, stream, pos, paused, read,
                   inserted, errors, buffer, closePc, durable, storeBefore,
                   faultsBefore, reportBefore, query, dryRun, p2>>

\* The promise of insertBatch settles: .then and .catch of the caller.
CsvSettled(f, fulfilled) ==
    IF ~fulfilled THEN CsvSettlePromise(csv, "rejected")
    ELSE IF flights[f].isClose THEN CsvSettlePromise(csv, "resolved")
    ELSE FreshBatch(csv)

\* pool.connect() or BEGIN fails, server.js 129-131.
CsvFlightOpenFails(f) ==
    /\ csv.pc # "idle"
    /\ f \in DOMAIN flights
    /\ flights[f].pc = "connect"
    /\ faults < MaxFaults
    /\ faults' = faults + 1
    /\ flights' = [flights EXCEPT ![f].pc = "settled"]
    /\ csv' = CsvSettled(f, FALSE)
    /\ report' = CsvResponse(csv')
    /\ UNCHANGED <<store, rerun, insertMode, batchSize, stream, pos, paused, read,
                   inserted, errors, buffer, closePc, durable, storeBefore,
                   faultsBefore, reportBefore, query, dryRun, p2>>

\* One iteration of the for loop, server.js 132-155: any failure leaves the
\* loop for the catch (ROLLBACK, rethrow).
CsvFlightRow(f) ==
    /\ csv.pc # "idle"
    /\ f \in DOMAIN flights
    /\ Open(f)
    /\ flights[f].i <= Len(RecsOf(flights[f]))
    /\ LET fl == flights[f]
           r == RecsOf(fl)[fl.i]
           k == IdentityOf(r)
           updated_at == ToDate(r.updated_at)
           excluded == Proposed(k[1], k[2], Nullish(r.title), Nullish(r.url), updated_at, r)
           thrown == /\ flights' = [flights EXCEPT ![f].pc = "settled", ![f].tx = EmptyTx,
                                                   ![f].n = 0]
                     /\ csv' = CsvSettled(f, FALSE)
                     /\ report' = CsvResponse(csv')
       IN
       IF MissingIdentity(r)
       THEN thrown /\ faults' = faults
       ELSE \/ \* the sink rejects the statement
               /\ SinkRejects(updated_at) \/ (Deadlocked(f) /\ faults < MaxFaults)
               /\ faults' = IF SinkRejects(updated_at) THEN faults ELSE faults + 1
               /\ thrown
            \/ \* the connection is lost under the statement
               /\ faults < MaxFaults
               /\ faults' = faults + 1
               /\ thrown
            \/ \* the sink accepts the statement
               /\ ~SinkRejects(updated_at)
               /\ ~Blocked(f)
               /\ flights' = [flights EXCEPT ![f].i = fl.i + 1, ![f].pc = "loop",
                                             ![f].tx = Upserted(fl.tx, k, excluded),
                                             ![f].n = fl.n + 1]
               /\ UNCHANGED <<csv, report, faults>>
    /\ UNCHANGED <<store, rerun, insertMode, batchSize, stream, pos, paused, read,
                   inserted, errors, buffer, closePc, durable, storeBefore,
                   faultsBefore, reportBefore, query, dryRun, p2>>

\* COMMIT, server.js 156-162.
CsvFlightCommit(f) ==
    /\ csv.pc # "idle"
    /\ f \in DOMAIN flights
    /\ Open(f)
    /\ flights[f].i > Len(RecsOf(flights[f]))
    /\ flights' = [flights EXCEPT ![f].pc = "settled", ![f].tx = EmptyTx, ![f].n = 0]
    /\ \/ /\ store' = flights[f].tx @@ store
          /\ durable' = durable + flights[f].n
          /\ faults' = faults
          /\ csv' = CsvSettled(f, TRUE)
       \/ /\ faults < MaxFaults
          /\ faults' = faults + 1
          /\ csv' = CsvSettled(f, FALSE)
          /\ UNCHANGED <<store, durable>>
    /\ report' = CsvResponse(csv')
    /\ UNCHANGED <<rerun, insertMode, batchSize, stream, pos, paused, read,
                   inserted, errors, buffer, closePc, storeBefore,
                   faultsBefore, reportBefore, query, dryRun, p2>>

\* One POST /api/import of server.js.
InitCsv ==
    /\ rerun = FALSE
    /\ store \in {<<>>, SeedStore}
    /\ storeBefore = store
    /\ faults = 0
    /\ insertMode \in BOOLEAN
    /\ batchSize = BATCH
    /\ \E h \in Headers :
         /\ stream \in SeqsUpTo({Mask(row, h) : row \in CsvRows}, MaxLines) \ {<<>>}
         /\ csv = CsvStart(h)
    /\ pos = 0
    /\ paused = FALSE
    /\ read = 0
    /\ inserted = 0
    /\ errors = <<>>
    /\ buffer = <<>>
    /\ flights = <<>>
    /\ closePc = "idle"
    /\ report = NoReport
    /\ durable = 0
    /\ faultsBefore = 0
    /\ reportBefore = NoReport
    /\ query = NoQuery
    /\ dryRun \in BOOLEAN
    /\ p2 = P2Idle

NextCsv ==
    \/ \E n \in 1..MaxLines : CsvReadable(n)
    \/ CsvEnd
    \/ \E f \in 1..(MaxLines + 1) : CsvFlightOpenFails(f)
    \/ \E f \in 1..(MaxLines + 1) : CsvFlightRow(f)
    \/ \E f \in 1..(MaxLines + 1) : CsvFlightCommit(f)

SpecCsv == InitCsv /\ [][NextCsv]_vars

\* One import through either handler that knows a dry-run mode.
InitImport == InitCsv \/ InitP2

NextImport == NextCsv \/ NextP2

SpecImport == InitImport /\ [][NextImport]_vars

\* ------------------------------------------------------------------ the batch parameter
\* A query value is absent, the empty string, the non-numeric "abc", or the
\* decimal string of a number; a JavaScript number is NaN or a count of halves
\* (3 is 6 halves, 2.5 is 5).
QuerySpan == 6
BatchCeiling == 5000
BatchDefault == 1000

Absent == [t |-> "absent", h |-> 0]
Empty == [t |-> "empty", h |-> 0]
Text == [t |-> "text", h |-> 0]
NaN == [t |-> "nan", h |-> 0]
Number(n) == [t |-> "num", h |-> 2 * n]
Halves(h) == [t |-> "num", h |-> h]

QueryValues ==
    {Absent, Empty, Text}
        \cup {Halves(h) : h \in -QuerySpan..QuerySpan}
        \cup {Halves(h) : h \in (2 * BatchCeiling - QuerySpan)..(2 * BatchCeiling + QuerySpan)}

\* Number(v)
ToNumber(v) ==
    IF v.t \in {"absent", "text", "nan"} THEN NaN
    ELSE IF v.t = "empty" THEN Number(0)
    ELSE v

\* parseInt(v, 10)
ParseInt(v) ==
    IF v.t # "num" THEN NaN
    ELSE IF v.h >= 0 THEN Halves(2 * (v.h \div 2))
    ELSE Halves(-2 * ((-v.h) \div 2))

\* s || d for a query string s: only the absent and the empty string are falsy
StringOr(s, d) == IF s.t \in {"absent", "empty"} THEN d ELSE s

\* n || d for a number n: 0 and NaN are falsy
NumberOr(n, d) == IF n = NaN \/ n = Number(0) THEN d ELSE n

MathMin(a, b) == IF NaN \in {a, b} THEN NaN ELSE IF a.h < b.h THEN a ELSE b
MathMax(a, b) == IF NaN \in {a, b} THEN NaN ELSE IF a.h > b.h THEN a ELSE b

\* server.js 255 (and part_004)
BatchSizeOf(q) ==
    MathMax(Number(1), MathMin(Number(BatchCeiling), NumberOr(ToNumber(q), Number(BatchDefault))))

\* part_000 117
BatchSizeOf000(q) ==
    MathMax(Number(1), MathMin(ParseInt(StringOr(q, Number(BatchDefault))), Number(BatchCeiling)))

\* part_002 227
BatchSizeOf002(q) ==
    MathMax(Number(1), MathMin(Number(BatchCeiling), ToNumber(StringOr(q, Number(BatchDefault)))))

Handlers == {"server.js", "part_000", "part_002"}

\* The handler reads ?batch= of its request.
ReadBatch ==
    /\ query.handler \in Handlers
    /\ query.pc = "raw"
    /\ query' = [query EXCEPT !.pc = "read",
                              !.effective = CASE query.handler = "server.js" -> BatchSizeOf(query.batch)
                                              [] query.handler = "part_000" -> BatchSizeOf000(query.batch)
                                              [] OTHER -> BatchSizeOf002(query.batch)]
    /\ UNCHANGED <<store, rerun, faults, insertMode, batchSize, stream, pos, paused, read,
                   inserted, errors, buffer, flights, closePc, report, durable, storeBefore,
                   faultsBefore, reportBefore, dryRun, csv, p2>>

InitBatch ==
    /\ store = <<>>
    /\ rerun = FALSE
    /\ faults = 0
    /\ insertMode = TRUE
    /\ batchSize = 1
    /\ stream = <<>>
    /\ pos = 0
    /\ paused = FALSE
    /\ read = 0
    /\ inserted = 0
    /\ errors = <<>>
    /\ buffer = <<>>
    /\ flights = <<>>
    /\ closePc = "idle"
    /\ report = NoReport
    /\ durable = 0
    /\ storeBefore = <<>>
    /\ faultsBefore = 0
    /\ reportBefore = NoReport
    /\ dryRun = FALSE
    /\ csv = CsvIdle
    /\ p2 = P2Idle
    /\ \E h \in Handlers, q \in QueryValues :
         query = [handler |-> h, batch |-> q, pc |-> "raw", effective |-> NaN]

NextBatch == ReadBatch

SpecBatch == InitBatch /\ [][NextBatch]_vars

\* ------------------------------------------------------------------ part_000: NDJSON
\* A line of white space only: line.trim() is empty, the line itself is not.
SpaceLine == NoProps("spaces")

\* text.split(/\r\n|\n|\r/).filter(Boolean), part_000 114: the empty lines are
\* dropped before the loop, the lines of white space are kept.
P000Lines == SelectSeq(stream, LAMBDA l : l.kind # "blank")

\* insertBatch, part_000 138-245, as its outcome: one multi-row INSERT ... ON
\* CONFLICT DO UPDATE per batch, which the sink takes or refuses as a whole.
\* row.company_slug of a null record throws outside the try: the 'end' handler
\* rejects and no response is ever sent.
P000InsertBatch(batch, fault) ==
    LET missing(r) == ~Truthy(r.company_slug) \/ ~Truthy(r.internal_job_id)
        bad == SelectSeq(batch, missing)
        rows == SelectSeq(batch, LAMBDA r : ~missing(r))
        idErrs == [i \in 1..Len(bad) |->
                     [row |-> [company_slug |-> bad[i].company_slug,
                               internal_job_id |-> bad[i].internal_job_id],
                      error |-> "company_slug and internal_job_id are required"]]
        key(r) == <<r.company_slug, r.internal_job_id>>
        keys == {key(rows[i]) : i \in 1..Len(rows)}
        excluded(k) ==
            LET r == rows[CHOOSE i \in 1..Len(rows) : key(rows[i]) = k]
            IN  [Proposed(r.company_slug, r.internal_job_id, Nullish(r.title),
                          Nullish(r.url), Null, NullJson)
                    EXCEPT !.updated_at = Nullish(r.updated_at)]
        \* base = i * COLS.length with i the index in the batch, while values
        \* holds the kept rows only (part_000 189-193): the placeholders of the
        \* row at batch index i name the i-th group of values.
        placeholders == {i \in 1..Len(batch) : ~missing(batch[i])}
        refused == \/ fault
                   \/ placeholders # 1..Len(rows)
                   \/ \E i \in 1..Len(rows) : SinkRejects(rows[i].updated_at)
                   \/ Cardinality(keys) < Len(rows)
        same == [crashed |-> FALSE, store |-> store, inserted |-> inserted,
                 errors |-> errors \o idErrs]
    IN  IF \E i \in 1..Len(batch) : batch[i].kind = "null"
        THEN [same EXCEPT !.crashed = TRUE, !.errors = errors]
        ELSE IF rows = <<>> THEN same
        ELSE IF refused
        THEN [same EXCEPT !.errors = Append(errors \o idErrs, [batchError |-> "sink"])]
        ELSE [same EXCEPT
                !.inserted = inserted + Len(rows),
                !.store = [k \in DOMAIN store \cup keys |->
                             IF k \notin keys THEN store[k]
                             ELSE IF k \in DOMAIN store
                             THEN [excluded(k) EXCEPT !.created_at = store[k].created_at]
                             ELSE excluded(k)]]

\* A variant without the token guard.
TokenNeverRefused(q) == FALSE
\* The token guard, part_000 96-100: q.token is the x-import-token header
\* (Undef when absent) and q.configured is process.env.IMPORT_TOKEN.
TokenRefused(q) ==
    \/ ~Truthy(q.configured)
    \/ (IF Truthy(q.token) THEN q.token ELSE "") # q.configured

\* The token and the content type are checked before the body is decoded,
\* part_000 96-114.
P000Request ==
    /\ query.handler = "part_000"
    /\ query.pc = "request"
    /\ IF TokenRefused(query)
       THEN query' = [query EXCEPT !.pc = "done"]
            /\ report' = [ok |-> FALSE, status |-> 401]
       ELSE IF query.ct \in {"application/x-ndjson", "application/x-ndjson; charset=utf-8"}
       THEN query' = [query EXCEPT !.pc = "loop"] /\ report' = report
       ELSE query' = [query EXCEPT !.pc = "done"]
            /\ report' = [ok |-> FALSE, status |-> 415]
    /\ UNCHANGED <<store, rerun, faults, insertMode, batchSize, stream, pos, paused, read,
                   inserted, errors, buffer, flights, closePc, durable, storeBefore,
                   faultsBefore, reportBefore, dryRun, csv, p2>>

\* One turn of the loop over the lines, part_000 249-264.
P000Line ==
    /\ query.handler = "part_000"
    /\ query.pc = "loop"
    /\ pos < Len(P000Lines)
    /\ pos' = pos + 1
    /\ read' = read + 1
    /\ LET line == P000Lines[pos + 1] IN
       IF line.kind = "spaces"
       THEN UNCHANGED <<store, faults, inserted, errors, buffer, query>>
       ELSE IF line.kind = "malformed"
       THEN /\ errors' = Append(errors, [row |-> read', error |-> "invalid JSON"])
            /\ UNCHANGED <<store, faults, inserted, buffer, query>>
       ELSE IF Len(buffer) + 1 < batchSize
       THEN /\ buffer' = Append(buffer, line)
            /\ UNCHANGED <<store, faults, inserted, errors, query>>
       ELSE \E fault \in {FALSE} \cup {faults < MaxFaults} :
                LET out == P000InsertBatch(Append(buffer, line), fault) IN
                /\ faults' = IF fault THEN faults + 1 ELSE faults
                /\ buffer' = <<>>
                /\ store' = out.store
                /\ inserted' = out.inserted
                /\ errors' = out.errors
                /\ query' = IF out.crashed THEN [query EXCEPT !.pc = "crashed"] ELSE query
    /\ UNCHANGED <<rerun, insertMode, batchSize, stream, paused, flights, closePc, report,
                   durable, storeBefore, faultsBefore, reportBefore, dryRun, csv, p2>>

\* The tail batch and the response, part_000 266-268: the whole errors array.
P000Tail ==
    /\ query.handler = "part_000"
    /\ query.pc = "loop"
    /\ pos = Len(P000Lines)
    /\ \E fault \in {FALSE} \cup {faults < MaxFaults} :
           LET out == P000InsertBatch(buffer, fault /\ buffer # <<>>) IN
           /\ faults' = IF fault /\ buffer # <<>> THEN faults + 1 ELSE faults
           /\ buffer' = <<>>
           /\ store' = out.store
           /\ inserted' = out.inserted
           /\ errors' = out.errors
           /\ IF out.crashed
              THEN query' = [query EXCEPT !.pc = "crashed"] /\ report' = report
              ELSE /\ query' = [query EXCEPT !.pc = "done"]
                   /\ report' = [ok |-> TRUE, read |-> read, inserted |-> out.inserted,
                                 errorsCount |-> Len(out.errors), errors |-> out.errors]
    /\ UNCHANGED <<rerun, insertMode, batchSize, stream, pos, paused, read, flights, closePc,
                   durable, storeBefore, faultsBefore, reportBefore, dryRun, csv, p2>>

\* One POST /api/jobs/ndjson of part_000.
InitP000 ==
    /\ rerun = FALSE
    /\ store = <<>>
    /\ faults = 0
    /\ insertMode = TRUE
    /\ batchSize \in 1..MaxBatch
    /\ stream \in SeqsUpTo(Lines \cup {SpaceLine}, MaxLines) \ {<<>>}
    /\ pos = 0
    /\ paused = FALSE
    /\ read = 0
    /\ inserted = 0
    /\ errors = <<>>
    /\ buffer = <<>>
    /\ flights = <<>>
    /\ closePc = "open"
    /\ report = NoReport
    /\ durable = 0
    /\ storeBefore = <<>>
    /\ faultsBefore = 0
    /\ reportBefore = NoReport
    /\ query \in {[handler |-> "part_000", pc |-> "request", ct |-> c,
                     token |-> t, configured |-> e] :
                    c \in {"application/x-ndjson", "application/x-ndjson; charset=utf-8",
                           "application/json"},
                    t \in {"secret", "wrong", Undef},
                    e \in {"secret", ""}}
    /\ dryRun = FALSE
    /\ csv = CsvIdle
    /\ p2 = P2Idle

NextP000 ==
    \/ P000Request
    \/ P000Line
    \/ P000Tail

SpecP000 == InitP000 /\ [][NextP000]_vars

\* ------------------------------------------------------------------ part_003: CSV
\* The records csv-parse yields (columns: true, trim: true); job_id is Undef
\* when the file has no such column.
P003Records ==
    {[job_id |-> j, company_slug |-> "acme", internal_job_id |-> id, title |-> "T1"] :
        j \in {"j1", "j2", Undef}, id \in {"1", "2"}}
    \cup {[job_id |-> "j1", company_slug |-> "acme", internal_job_id |-> "1", title |-> "T2"]}

\* The file is fetched and parsed, a dry run answers at once and a real run
\* creates the table keyed by job_id, part_003 67-136.
P003Request ==
    /\ query.handler = "part_003"
    /\ query.pc = "request"
    /\ IF query.ct = "text/html"
       THEN /\ query' = [query EXCEPT !.pc = "done"]
            /\ report' = [ok |-> FALSE, status |-> 415]
            /\ faults' = faults
       ELSE IF dryRun
       THEN /\ query' = [query EXCEPT !.pc = "done"]
            /\ report' = [ok |-> TRUE, parsed |-> Len(stream), inserted |-> 0,
                          dryRun |-> TRUE]
            /\ faults' = faults
       ELSE \/ /\ query' = [query EXCEPT !.pc = IF stream = <<>> THEN "done" ELSE "insert"]
               /\ report' = IF stream = <<>>
                            THEN [ok |-> TRUE, parsed |-> 0, inserted |-> 0, dryRun |-> FALSE]
                            ELSE report
               /\ faults' = faults
            \/ /\ faults < MaxFaults
               /\ faults' = faults + 1
               /\ query' = [query EXCEPT !.pc = "done"]
               /\ report' = [ok |-> FALSE, status |-> 500]
    /\ UNCHANGED <<store, rerun, insertMode, batchSize, stream, pos, paused, read,
                   inserted, errors, buffer, flights, closePc, durable, storeBefore,
                   faultsBefore, reportBefore, dryRun, csv, p2>>

\* One statement of the loop over the records, part_003 138-174, each its own
\* transaction; the response follows the last one, part_003 177-188.
P003Insert ==
    /\ query.handler = "part_003"
    /\ query.pc = "insert"
    /\ LET r == stream[pos + 1] IN
       \/ \* the sink refuses the statement: job_id is the primary key
          /\ r.job_id = Undef \/ faults < MaxFaults
          /\ faults' = IF r.job_id = Undef THEN faults ELSE faults + 1
          /\ query' = [query EXCEPT !.pc = "done"]
          /\ report' = [ok |-> FALSE, status |-> 500]
          /\ UNCHANGED <<store, pos, inserted>>
       \/ /\ r.job_id # Undef
          /\ store' = IF r.job_id \in DOMAIN store
                      THEN [store EXCEPT ![r.job_id].title = r.title]
                      ELSE (r.job_id :> r) @@ store
          /\ pos' = pos + 1
          /\ inserted' = inserted + 1
          /\ faults' = faults
          /\ IF pos' = Len(stream)
             THEN /\ query' = [query EXCEPT !.pc = "done"]
                  /\ report' = [ok |-> TRUE, parsed |-> Len(stream),
                                inserted |-> inserted', dryRun |-> FALSE]
             ELSE UNCHANGED <<query, report>>
    /\ UNCHANGED <<rerun, insertMode, batchSize, stream, paused, read, errors, buffer,
                   flights, closePc, durable, storeBefore, faultsBefore, reportBefore,
                   dryRun, csv, p2>>

\* A second POST /api/import, of another file.
P003Again ==
    /\ query.handler = "part_003"
    /\ query.pc = "done"
    /\ ~rerun
    /\ rerun' = TRUE
    /\ stream' \in SeqsUpTo(P003Records, MaxReimportLines)
    /\ query' = [query EXCEPT !.pc = "request"]
    /\ pos' = 0
    /\ inserted' = 0
    /\ faults' = 0
    /\ report' = NoReport
    /\ dryRun' = FALSE
    /\ UNCHANGED <<store, insertMode, batchSize, paused, read, errors, buffer, flights,
                   closePc, durable, storeBefore, faultsBefore, reportBefore, csv, p2>>

InitP003 ==
    /\ rerun = FALSE
    /\ store = <<>>
    /\ faults = 0
    /\ insertMode = TRUE
    /\ batchSize = 1
    /\ stream \in SeqsUpTo(P003Records, MaxReimportLines)
    /\ pos = 0
    /\ paused = FALSE
    /\ read = 0
    /\ inserted = 0
    /\ errors = <<>>
    /\ buffer = <<>>
    /\ flights = <<>>
    /\ closePc = "open"
    /\ report = NoReport
    /\ durable = 0
    /\ storeBefore = <<>>
    /\ faultsBefore = 0
    /\ reportBefore = NoReport
    /\ query \in {[handler |-> "part_003", pc |-> "request", ct |-> c] :
                    c \in {"text/csv", "text/html"}}
    /\ dryRun \in BOOLEAN
    /\ csv = CsvIdle
    /\ p2 = P2Idle

NextP003 ==
    \/ P003Request
    \/ P003Insert
    \/ P003Again

SpecP003 == InitP003 /\ [][NextP003]_vars

\* ------------------------------------------------------------------ part_002: JOBS_SCHEMA
\* Two import runs of one process, each a series of upsertMany calls. query
\* holds the module variable JOBS_SCHEMA (cache: 0 for null, else the number
\* of the query whose rows built the descriptor object), the queries sent on
\* information_schema (fetches), the descriptors built (loads) and, per run,
\* the calls left, the descriptor its last call used and the one awaited.
\*
\* upsertMany is called, part_002 134-135, and loadJobsSchema runs up to its
\* await, 43-50: the cached descriptor is returned, or a query is sent.
UpsertManyCall(p) ==
    /\ query.handler = "loadJobsSchema"
    /\ query.run[p].pc = "idle"
    /\ query.run[p].left > 0
    /\ IF query.cache # 0
       THEN query' = [query EXCEPT !.run[p].pc = "loop", !.run[p].used = query.cache]
       ELSE query' = [query EXCEPT !.run[p].pc = "await", !.fetches = query.fetches + 1,
                                   !.run[p].awaited = query.fetches + 1]
    /\ UNCHANGED <<store, rerun, faults, insertMode, batchSize, stream, pos, paused, read,
                   inserted, errors, buffer, flights, closePc, report, durable, storeBefore,
                   faultsBefore, reportBefore, dryRun, csv, p2>>

\* The query returns, part_002 50-54: JOBS_SCHEMA is assigned the descriptor
\* built from its rows; or it fails and the run ends with a 500.
SchemaReturns(p) ==
    /\ query.handler = "loadJobsSchema"
    /\ query.run[p].pc = "await"
    /\ \/ /\ query' = [query EXCEPT !.cache = query.run[p].awaited,
                                    !.loads = query.loads + 1,
                                    !.run[p].pc = "loop",
                                    !.run[p].used = query.run[p].awaited]
          /\ faults' = faults
       \/ /\ faults < MaxFaults
          /\ faults' = faults + 1
          /\ query' = [query EXCEPT !.run[p].pc = "failed"]
    /\ UNCHANGED <<store, rerun, insertMode, batchSize, stream, pos, paused, read,
                   inserted, errors, buffer, flights, closePc, report, durable, storeBefore,
                   faultsBefore, reportBefore, dryRun, csv, p2>>

\* The loop of upsertMany is over, part_002 141-157.
UpsertManyEnds(p) ==
    /\ query.handler = "loadJobsSchema"
    /\ query.run[p].pc = "loop"
    /\ query' = [query EXCEPT !.run[p].pc = "idle", !.run[p].left = query.run[p].left - 1,
                              !.run[p].before = query.run[p].used]
    /\ UNCHANGED <<store, rerun, faults, insertMode, batchSize, stream, pos, paused, read,
                   inserted, errors, buffer, flights, closePc, report, durable, storeBefore,
                   faultsBefore, reportBefore, dryRun, csv, p2>>

InitLoad ==
    /\ rerun = FALSE
    /\ store = <<>>
    /\ faults = 0
    /\ insertMode = TRUE
    /\ batchSize = 1
    /\ stream = <<>>
    /\ pos = 0
    /\ paused = FALSE
    /\ read = 0
    /\ inserted = 0
    /\ errors = <<>>
    /\ buffer = <<>>
    /\ flights = <<>>
    /\ closePc = "idle"
    /\ report = NoReport
    /\ durable = 0
    /\ storeBefore = <<>>
    /\ faultsBefore = 0
    /\ reportBefore = NoReport
    /\ \E l1, l2 \in 1..MaxBatch :
           query = [handler |-> "loadJobsSchema", pc |-> "none", cache |-> 0,
                    fetches |-> 0, loads |-> 0,
                    run |-> [p \in 1..2 |->
                               [pc |-> "idle", left |-> IF p = 1 THEN l1 ELSE l2,
                                used |-> 0, before |-> 0, awaited |-> 0]]]
    /\ dryRun = FALSE
    /\ csv = CsvIdle
    /\ p2 = P2Idle

NextLoad ==
    \/ \E p \in 1..2 : UpsertManyCall(p)
    \/ \E p \in 1..2 : SchemaReturns(p)
    \/ \E p \in 1..2 : UpsertManyEnds(p)

SpecLoad == InitLoad /\ [][NextLoad]_vars

\* ------------------------------------------------------------------ part_002: coerceForColumn
\* The longest text the coercion is tried on.
MaxText == 3

\* coerceForColumn(col, val, types), part_002 62-102, for a column of type t
\* ("bool", "jsonb" or a text or timestamp type; the numeric types are left
\* out). A value is [t, s, items]: its JavaScript type, String(val) as a
\* sequence of characters, and the elements of an array. lower and trim tell
\* whether toLowerCase() (94) and trim() (69) are applied.
CoerceWith(lower, trim, t, v) ==
    LET JsNull == [t |-> "null", s |-> <<>>, items |-> <<>>]
        JsBool(w) == [t |-> "bool", s |-> w, items |-> <<>>]
        Str(s) == [t |-> "str", s |-> s, items |-> <<>>]
        LowerChar(c) ==
            CASE c = "A" -> "a"
              [] c = "E" -> "e"
              [] c = "F" -> "f"
              [] c = "L" -> "l"
              [] c = "M" -> "m"
              [] c = "N" -> "n"
              [] c = "O" -> "o"
              [] c = "R" -> "r"
              [] c = "S" -> "s"
              [] c = "T" -> "t"
              [] c = "U" -> "u"
              [] c = "Y" -> "y"
              [] OTHER -> c
        ToLowerCase(s) == IF lower THEN [i \in DOMAIN s |-> LowerChar(s[i])] ELSE s
        TrimChars(s) ==
            LET inked == {i \in DOMAIN s : s[i] # " "}
            IN  IF ~trim THEN s
                ELSE IF inked = {} THEN <<>>
                ELSE SubSeq(s, CHOOSE i \in inked : \A j \in inked : i <= j,
                               CHOOSE i \in inked : \A j \in inked : i >= j)
        \* JSON.parse over the alphabet of the model: {} and nested arrays of
        \* at most one element, white space between the tokens
        Parses(s) ==
            LET u == SelectSeq(s, LAMBDA c : c # " ")
                n == Cardinality({i \in DOMAIN u : \A j \in 1..i : u[j] = "["})
            IN  /\ Len(u) >= 2 * n
                /\ \A i \in (Len(u) - n + 1)..Len(u) : u[i] = "]"
                /\ \/ n >= 1 /\ Len(u) = 2 * n
                   \/ SubSeq(u, n + 1, Len(u) - n) = <<"{", "}">>
        \* s.split("|").map(x => x.trim()).filter(Boolean)
        Segments(s) ==
            LET bars == {i \in DOMAIN s : s[i] = "|"}
                bar(k) == IF k = 0 THEN 0
                          ELSE IF k > Cardinality(bars) THEN Len(s) + 1
                          ELSE CHOOSE i \in bars : Cardinality({j \in bars : j < i}) = k - 1
                parts == [k \in 1..(Cardinality(bars) + 1) |->
                            TrimChars(SubSeq(s, bar(k - 1) + 1, bar(k) - 1))]
            IN  SelectSeq(parts, LAMBDA x : x # <<>>)
    IN  IF v.t \in {"undef", "null"} \/ (v.t = "str" /\ v.s = <<>>) THEN JsNull
        ELSE IF t = "jsonb"
        THEN IF v.t \in {"obj", "arr"} THEN v
             ELSE LET s == TrimChars(v.s) IN
                  IF s = <<>> THEN JsNull
                  ELSE IF s[1] \in {"{", "["}
                  THEN IF Parses(s)
                       THEN [t |-> IF s[1] = "{" THEN "obj" ELSE "arr", s |-> s, items |-> <<>>]
                       ELSE Str(v.s)
                  ELSE IF \E i \in DOMAIN s : s[i] = "|"
                  THEN [t |-> "arr", s |-> <<>>, items |-> Segments(s)]
                  ELSE Str(s)
        ELSE IF t = "bool"
        THEN LET s == ToLowerCase(v.s) IN
             IF s \in {<<"t", "r", "u", "e">>, <<"t">>, <<"1">>, <<"y", "e", "s">>, <<"y">>}
             THEN JsBool(<<"t", "r", "u", "e">>)
             ELSE IF s \in {<<"f", "a", "l", "s", "e">>, <<"f">>, <<"0">>, <<"n", "o">>, <<"n">>}
             THEN JsBool(<<"f", "a", "l", "s", "e">>)
             ELSE JsNull
        ELSE Str(v.s)

\* A variant that applies neither toLowerCase() nor trim().
CoerceVerbatim(t, v) == CoerceWith(FALSE, FALSE, t, v)
CoerceFor(t, v) == CoerceWith(TRUE, TRUE, t, v)

\* One call of coerceForColumn.
Coerce ==
    /\ query.handler = "coerceForColumn"
    /\ query.pc = "raw"
    /\ query' = [query EXCEPT !.pc = "done", !.out = CoerceFor(query.kind, query.val)]
    /\ UNCHANGED <<store, rerun, faults, insertMode, batchSize, stream, pos, paused, read,
                   inserted, errors, buffer, flights, closePc, report, durable, storeBefore,
                   faultsBefore, reportBefore, dryRun, csv, p2>>

\* The values tried: undefined, null, the booleans, a number, an object, the
\* words of the boolean branch in several letter cases, and every text of up
\* to MaxText characters over { } [ ] | space a.
InitCoerce ==
    /\ store = <<>>
    /\ rerun = FALSE
    /\ faults = 0
    /\ insertMode = TRUE
    /\ batchSize = 1
    /\ stream = <<>>
    /\ pos = 0
    /\ paused = FALSE
    /\ read = 0
    /\ inserted = 0
    /\ errors = <<>>
    /\ buffer = <<>>
    /\ flights = <<>>
    /\ closePc = "idle"
    /\ report = NoReport
    /\ durable = 0
    /\ storeBefore = <<>>
    /\ faultsBefore = 0
    /\ reportBefore = NoReport
    /\ dryRun = FALSE
    /\ csv = CsvIdle
    /\ p2 = P2Idle
    /\ LET words == {<<"t", "r", "u", "e">>, <<"T", "R", "U", "E">>, <<"T", "r", "u", "e">>, <<"t">>,
                     <<"T">>, <<"1">>, <<"y", "e", "s">>, <<"Y", "E", "S">>, <<"y", "E", "s">>,
                     <<"y">>, <<"Y">>, <<"f", "a", "l", "s", "e">>, <<"F", "A", "L", "S", "E">>,
                     <<"F", "a", "l", "s", "e">>, <<"f">>, <<"F">>, <<"0">>, <<"n", "o">>,
                     <<"N", "O">>, <<"N", "o">>, <<"n">>, <<"N">>, <<"o", "n">>, <<"2">>,
                     <<"m", "a", "y", "b", "e">>, <<" ", "t">>, <<"t", "t">>}
           texts == SeqsUpTo({"{", "}", "[", "]", "|", " ", "a"}, MaxText)
           values == {[t |-> "str", s |-> w, items |-> <<>>] : w \in words \cup texts}
                     \cup {[t |-> "undef", s |-> <<>>, items |-> <<>>],
                           [t |-> "null", s |-> <<>>, items |-> <<>>],
                           [t |-> "bool", s |-> <<"t", "r", "u", "e">>, items |-> <<>>],
                           [t |-> "bool", s |-> <<"f", "a", "l", "s", "e">>, items |-> <<>>],
                           [t |-> "num", s |-> <<"1">>, items |-> <<>>],
                           [t |-> "obj", s |-> <<"[", "o", "]">>, items |-> <<>>],
                           [t |-> "arr", s |-> <<"a">>, items |-> <<<<"a">>>>]}
       IN  \E k \in {"bool", "jsonb", "text"}, v \in values :
               query = [handler |-> "coerceForColumn", pc |-> "raw", kind |-> k, val |-> v,
                        out |-> v]

SpecCoerce == InitCoerce /\ [][Coerce]_vars

\* ------------------------------------------------------------------ claims
\* The import has sent its report.
Responded == closePc = "responded"

\* The import is over: the report is sent and no flush is left in flight.
Completed == Responded /\ Quiet

NonBlank == {i \in 1..Len(stream) : stream[i].kind # "blank"}
Malformed == {i \in 1..Len(stream) : stream[i].kind = "malformed"}

\* C1: the report of every completed NDJSON import satisfies
\* read = inserted + errorsCount.
C1_ReadIsWrittenPlusRejected ==
    Responded => report.read = report.inserted + report.errorsCount

\* C2: when the import is over, the written count equals the number of records
\* whose write the sink committed.
C2_WrittenCountExact ==
    Completed => inserted = durable

\* C5: in upsert mode, a statement that meets an existing row leaves every
\* column the incoming record does not contain at its previous value.
C5_MergeOnMissing ==
    [][\A f \in DOMAIN flights :
         (/\ insertMode
          /\ AtQuery(f)
          /\ HasRow(flights[f].tx, NextKey(f))
          /\ flights'[f].n = flights[f].n + 1)
         => LET r == flights[f].recs[flights[f].i]
                old == Visible(flights[f].tx, NextKey(f))
                new == flights'[f].tx[NextKey(f)]
            IN  /\ r.title = Undef => new.title = old.title
                /\ r.url = Undef => new.url = old.url
                /\ r.updated_at = Undef => new.updated_at = old.updated_at]_vars

C7_UpsertReimport ==
    (rerun /\ Completed /\ insertMode /\ faultsBefore = 0 /\ faults = 0)
        => store = storeBefore

\* A record with both identity fields that the sink accepts.
AcceptedLine(l) ==
    l.kind = "object" /\ ~MissingIdentity(l) /\ ~SinkRejects(ToDate(l.updated_at))

\* C8: when k of the N non-blank lines are malformed and the others are records
\* the sink accepts, the report reads read = N, errorsCount = k, inserted = N - k.
C8_MalformedLinesOnly ==
    (/\ Responded
     /\ faults = 0
     /\ Malformed # {}
     /\ \A i \in NonBlank \ Malformed : AcceptedLine(stream[i]))
    => /\ report.read = Cardinality(NonBlank)
       /\ report.errorsCount = Cardinality(Malformed)
       /\ report.inserted = Cardinality(NonBlank) - Cardinality(Malformed)

\* What the sink of part_002 does with the statement of a line.
P2Accepts(l) ==
    /\ l.kind = "object"
    /\ P2Cols(P2NormalizeObj(l)) # {}
    /\ ~P2SinkRejects(P2Proposed(P2NormalizeObj(l)))

P2Rejects(l) ==
    /\ l.kind = "object"
    /\ P2Cols(P2NormalizeObj(l)) # {}
    /\ P2SinkRejects(P2Proposed(P2NormalizeObj(l)))

P2Key(l) ==
    <<P2Proposed(P2NormalizeObj(l)).company_slug, P2Proposed(P2NormalizeObj(l)).internal_job_id>>

\* Lines i and j of a stream of records are flushed in the same batch.
SameBatch(i, j) == (i - 1) \div batchSize = (j - 1) \div batchSize

\* C3: after the sink rejects one record's statement, the records that follow
\* in the batch are still submitted and, when accepted, committed; the failure
\* leaves exactly one rejected entry.
C3_RecoversAndContinues ==
    (/\ p2.pc = "done" /\ report.ok /\ ~dryRun /\ faults = 0
     /\ \A i \in 1..Len(stream) : stream[i].kind = "object")
    => /\ Len(report.errors) = Cardinality({i \in 1..Len(stream) : P2Rejects(stream[i])})
       /\ \A i, j \in 1..Len(stream) :
            (i < j /\ SameBatch(i, j) /\ P2Rejects(stream[i]) /\ P2Accepts(stream[j]))
            => P2Key(stream[j]) \in DOMAIN store

\* The number of rejected records a report states.
RejectedCount(rep) ==
    IF "errorsCount" \in DOMAIN rep THEN rep.errorsCount
    ELSE IF "errors" \in DOMAIN rep THEN Len(rep.errors)
    ELSE 0

CsvLacksIdentity(row) ==
    ~Truthy(Get(row.company_slug)) \/ ~Truthy(Get(row.internal_job_id))

CsvDone == csv.pc = "ended" /\ report.ok /\ Quiet

\* C4: every record without a usable identity is counted and reported as
\* rejected, and no row without identity is in the store.
C4_MissingIdentityRejected ==
    CsvDone
    => /\ RejectedCount(report) = Cardinality({i \in 1..Len(stream) : CsvLacksIdentity(stream[i])})
       /\ \A k \in DOMAIN store : k[1] \notin {"", Null} /\ k[2] \notin {"", Null}

\* C9: under a header without an identity column, the report counts one
\* reject per data row, each with the reason "missing identity fields", and
\* the store is left as it was.
C9_HeaderWithoutIdentity ==
    (CsvDone /\ csv.header # FullHeader)
    => /\ RejectedCount(report) = Len(stream)
       /\ "errors" \in DOMAIN report
       /\ \A i \in 1..RejectedCount(report) : report.errors[i].error = "missing identity fields"
       /\ store = storeBefore

\* C10: in dry-run mode the store stays as it was before the import and no
\* statement of the run is committed.
C10_DryRunNeverWrites ==
    dryRun => store = storeBefore /\ durable = 0

\* A dry run over a stream with a record the sink would accept and that is
\* not in the store has been answered.
C10_Witness ==
    /\ dryRun /\ report.ok /\ pos = Len(stream)
    /\ store # <<>>
    /\ \E i \in 1..Len(stream) :
         /\ AcceptedLine(stream[i])
         /\ IdentityOf(stream[i]) \notin DOMAIN store

\* C11: the count a dry run reports is the written count a real run of the same
\* stream against the same store reports.
C11_DryCountIsRealCount ==
    (/\ rerun /\ p2.pc = "done"
     /\ reportBefore.ok /\ report.ok
     /\ faultsBefore = 0 /\ faults = 0)
    => reportBefore.processed = report.processed

\* C12: an import with batch size 1 and an import of the same stream with the
\* largest batch size, from the same store, send the same report.
C12_BatchSizeInvisible ==
    (rerun /\ Completed /\ faultsBefore = 0 /\ faults = 0)
    => report = reportBefore

\* C13: in insert-only mode no step changes a stored row, and a statement that
\* meets the row of its identity writes nothing, records no error and lets the
\* loop go on to the next record.
C13_ConflictIsNoOp ==
    [][~insertMode =>
         /\ \A k \in DOMAIN store : k \in DOMAIN store' /\ store'[k] = store[k]
         /\ \A f \in DOMAIN flights :
              (/\ f \in DOMAIN flights'
               /\ flights'[f] # flights[f]
               /\ AtQuery(f)
               /\ HasRow(flights[f].tx, NextKey(f))
               /\ ~flights[f].lost
               /\ ~SinkRejects(ToDate(RecsOf(flights[f])[flights[f].i].updated_at))
               /\ faults' = faults)
              => /\ errors' = errors
                 /\ flights'[f].tx = flights[f].tx
                 /\ flights'[f].i = flights[f].i + 1
                 /\ Open(f)']_vars

\* Every record of a second insert-only import met a stored row, and the
\* import ended without an error entry.
C13_Witness ==
    /\ rerun /\ ~insertMode /\ Completed /\ faults = 0
    /\ \A i \in 1..Len(stream) : IdentityOf(stream[i]) \in DOMAIN storeBefore
    /\ inserted = Len(stream)
    /\ errors = <<>>
    /\ store = storeBefore

\* The flushes in flight.
InFlight == {f \in DOMAIN flights : Open(f)}

\* C14: at any time a run has at most one flush in flight.
C14_OneFlushInFlight ==
    Cardinality(InFlight) <= 1

\* C15: every batch a flush works on holds at least one and at most the
\* configured maximum number of records.
C15_BatchWithinMaximum ==
    \A f \in InFlight :
        /\ Len(RecsOf(flights[f])) >= 1
        /\ Len(RecsOf(flights[f])) <= batchSize

\* C16: whatever ?batch= holds, the effective batch size is an integer from 1
\* to 5000, and it is 1000 when the parameter is absent.
C16_BatchSizeClamped ==
    query.pc = "read"
    => /\ query.effective # NaN
       /\ query.effective.h % 2 = 0
       /\ query.effective.h >= Number(1).h
       /\ query.effective.h <= Number(BatchCeiling).h
       /\ query.batch = Absent => query.effective = Number(BatchDefault)

\* C17: when the report is sent no flush of the run is in flight.
C17_ReportAfterEveryFlush ==
    Responded => InFlight = {}

\* The flushes that were handed the array a.
FlushesOf(a) == {f \in DOMAIN flights : flights[f].arr = a}

\* C18: in a completed non-dry CSV import, every batch of validated records
\* is handed to the sink by exactly one flush.
C18_EachRecordInOneFlush ==
    (CsvDone /\ ~dryRun)
    => \A a \in DOMAIN csv.arrays :
         csv.arrays[a] # <<>> => Cardinality(FlushesOf(a)) = 1

\* The report lists a batch that failed as a whole.
ReportsFatalBatch == \E i \in DOMAIN report.errors : report.errors[i] = FatalEntry

\* C19: a run in which a flush failed batch-wide (connect, BEGIN or COMMIT) is
\* not answered with a successful report.
C19_FatalBatchFailsRun ==
    (/\ Responded
     /\ \A i \in 1..Len(stream) : stream[i].kind # "null"
     /\ ReportsFatalBatch)
    => ~report.ok

\* C20: without a batch-wide sink failure, the CSV import answers with a
\* successful report.
C20_RecordErrorsDoNotFailRun ==
    (csv.pc # "idle" /\ csv.promise # "pending" /\ faults = 0)
    => report.ok

\* C21: the failure response of an aborted run still carries the counts of
\* what was read, written and rejected up to the point of the abort.
C21_FailureCarriesCounts ==
    (p2.pc = "done" /\ "status" \in DOMAIN report /\ pos > 0)
        => /\ DOMAIN report \cap {"read", "parsed", "processed"} # {}
           /\ DOMAIN report \cap {"inserted", "upserted"} # {}
           /\ DOMAIN report \cap {"errors", "errorsCount", "skipped"} # {}

\* C22: the rejected list of a report holds at most ReportLimit entries, the
\* first ones in the order they were recorded, while the rejected count is the
\* total number of rejected records.
C22_RejectedListCapped ==
    (query.handler = "part_000" /\ query.pc = "done" /\ report.ok)
        => /\ Len(report.errors) <= ReportLimit
           /\ report.errors = SubSeq(errors, 1, Min(ReportLimit, Len(errors)))
           /\ report.errorsCount = Len(errors)

\* C23: the report entry of a record rejected for a missing identity holds the
\* two identity values and the reason only, never another field of the record.
C23_IdentityEntryHoldsNoOtherField ==
    Responded =>
        \A i \in 1..Len(report.errors) :
            report.errors[i].error = "missing company_slug/internal_job_id"
                => \A f \in DOMAIN report.errors[i].row
                            \ {"kind", "company_slug", "internal_job_id"} :
                       report.errors[i].row[f] = Undef

\* C24: after any sequence of import runs the store holds at most one row per
\* identity (company_slug, internal_job_id), whatever the other fields are.
C24_OneRowPerIdentity ==
    query.handler = "part_003"
        => \A j, k \in DOMAIN store :
               (/\ store[j].company_slug = store[k].company_slug
                /\ store[j].internal_job_id = store[k].internal_job_id) => j = k

\* C25: whenever the schema descriptor is present, the columns every statement
\* names are columns of the descriptor: a property of a record that the jobs
\* table does not have is never written.
C25_StatementColumnsKnown ==
    p2.schema = "loaded" => p2.cols \subseteq JobsColumns

\* A statement was sent for a record that carries an unknown property.
C25_Witness ==
    /\ p2.pc = "upsert"
    /\ p2.i > 1
    /\ p2.batch[p2.i - 1].note # Undef
    /\ p2.cols # {}
    /\ p2.n > 0

\* C26: when the schema descriptor cannot be obtained the import does not fail:
\* the step that tried to load it never ends the run with a failure response.
C26_SchemaFailureDoesNotFail ==
    [][p2.pc = "schema" => /\ p2'.pc = "upsert"
                           /\ "status" \notin DOMAIN report']_vars

\* C27: when the request of an import is cancelled mid-way, the run lets the
\* flush in flight finish and then returns the partial report.
C27_CancelledRunReports ==
    (\E i \in 1..Len(errors) : "stream" \in DOMAIN errors[i]) ~> (closePc = "responded")

\* C28: an NDJSON import request whose content type is not application/x-ndjson
\* is rejected before any decoding: no line is read, no record is counted and
\* nothing is written to the store.
C28_WrongContentTypeRejected ==
    (query.handler = "server.js" /\ query.ct = "application/json")
        => /\ pos = 0
           /\ read = 0
           /\ flights = <<>>
           /\ store = <<>>

\* C29: a key stored in the catch-all JSON column of a row is still there after
\* any later write to the row that does not override it, also when the later
\* record has no unknown property at all.
C29_CatchAllKeepsStoredKeys ==
    [][\A k \in DOMAIN store \cap DOMAIN store' :
           store[k].payload.note # Undef => store'[k].payload.note # Undef]_vars

\* C30: the position recorded for a malformed line is the 1-based number of
\* that line in the stream, blank lines before it counted, while the blank
\* lines do not increase the read count.
C30_PositionIsLineNumber ==
    pos = Len(stream)
        => /\ read = Cardinality(NonBlank)
           /\ {errors[i].row : i \in {j \in 1..Len(errors) : errors[j].error = "invalid JSON"}}
                 = Malformed

\* C31: a line that is valid JSON but not a JSON object is recorded as a decode
\* error of that line and never enters a batch, so it never makes the batch it
\* would have joined fail as a whole.
C31_NonObjectNeverInBatch ==
    /\ \A f \in DOMAIN flights :
           \A i \in 1..Len(flights[f].recs) : flights[f].recs[i].kind = "object"
    /\ \A i \in 1..pos :
           stream[i].kind = "null"
               => \E e \in 1..Len(errors) : errors[e].error = "invalid JSON"

\* C32: a record skipped for missing identity inside a multi-row batch does not
\* keep the other records of the batch from being written: when nothing else
\* is wrong with the stream, every record that has its identity is stored and
\* counted.
C32_SkippedRecordSparesBatch ==
    LET objects == {i \in 1..Len(stream) : stream[i].kind = "object"}
        valid == {i \in objects : /\ Truthy(stream[i].company_slug)
                                  /\ Truthy(stream[i].internal_job_id)}
        key(i) == <<stream[i].company_slug, stream[i].internal_job_id>>
    IN  (/\ query.handler = "part_000"
         /\ query.pc = "done"
         /\ report.ok
         /\ faults = 0
         /\ \A i \in valid : ~SinkRejects(stream[i].updated_at)
         /\ \A i, j \in valid : key(i) = key(j) => i = j)
            => /\ \A i \in valid : key(i) \in DOMAIN store
               /\ report.inserted = Cardinality(valid)

\* C33: the schema descriptor is fetched from the sink at most once per
\* process, also when import runs start concurrently, and the descriptor a run
\* has used is never replaced while the run is in progress.
C33_DescriptorFetchedOnce ==
    query.handler = "loadJobsSchema"
        => /\ query.fetches <= 1
           /\ query.loads <= 1
           /\ \A p \in 1..2 :
                  (query.run[p].before # 0 /\ query.run[p].pc = "loop")
                      => query.run[p].used = query.run[p].before

C35_JsonRule(trims) ==
    (query.handler = "coerceForColumn" /\ query.pc = "done" /\ query.kind = "jsonb")
        => LET v == query.val
               out == query.out
               inked == {i \in DOMAIN v.s : v.s[i] # " "}
               core == IF ~trims THEN v.s
                       ELSE IF inked = {} THEN <<>>
                       ELSE SubSeq(v.s, CHOOSE i \in inked : \A j \in inked : i <= j,
                                        CHOOSE i \in inked : \A j \in inked : i >= j)
           IN  /\ v.t \in {"obj", "arr"} => out = v
               /\ (v.t = "str" /\ v.s # <<>>)
                    => IF core = <<>> THEN out.t = "null"
                       ELSE IF core[1] \in {"{", "["}
                       THEN /\ \/ out.t \in {"obj", "arr"} /\ out.s = core
                               \/ out.t = "str" /\ out.s = v.s
                            /\ core \in {<<"{", "}">>, <<"[", "]">>} => out.t # "str"
                            /\ (\E i \in DOMAIN core : core[i] \in {"a", "|"}) => out.t = "str"
                       ELSE IF \E i \in DOMAIN core : core[i] = "|"
                       THEN /\ out.t = "arr"
                            /\ \A k \in DOMAIN out.items :
                                   LET x == out.items[k] IN
                                   /\ x # <<>>
                                   /\ x[1] # " " /\ x[Len(x)] # " "
                                   /\ \A i \in DOMAIN x : x[i] # "|"
                            /\ Len(out.items) <= Cardinality({i \in DOMAIN core : core[i] = "|"}) + 1
                            /\ core = <<"a", "|", "a">> => out.items = <<<<"a">>, <<"a">>>>
                            /\ core = <<"a", "|">> => out.items = <<<<"a">>>>
                       ELSE out.t = "str" /\ out.s = core

\* C35: for a json column a structured value is passed through; text that
\* begins with { or [ is parsed as JSON, or kept as the original string when
\* it does not parse; other text with a | is split into its trimmed non-empty
\* segments; any other text is kept as the string itself.
C35_JsonCoercion ==
    C35_JsonRule(FALSE)

\* C35, amended: the rule applies to the text without its surrounding white
\* space: text of white space only yields null and plain text is kept trimmed.
C35_JsonCoercionOfTrimmedText ==
    C35_JsonRule(TRUE)

\* A plain text with white space around it was coerced for a json column.
C35_Witness ==
    /\ query.handler = "coerceForColumn"
    /\ query.pc = "done"
    /\ query.kind = "jsonb"
    /\ query.val.s = <<" ", "a", " ">>
    /\ query.out.s = <<"a">>

\* C36: an import request whose x-import-token header is absent or differs from
\* the configured IMPORT_TOKEN never reads the payload and never writes to the
\* store, and without a configured IMPORT_TOKEN every request is refused.
C36_TokenGuardsImport ==
    (/\ query.handler = "part_000"
     /\ \/ query.token \in {Undef, ""}
        \/ query.token # query.configured
        \/ query.configured \in {Undef, ""})
        => /\ query.pc \in {"request", "done"}
           /\ pos = 0
           /\ read = 0
           /\ store = <<>>
           /\ query.pc = "done" => ~report.ok

\* A request with a wrong token and a record in its body was refused.
C36_Witness ==
    /\ query.handler = "part_000"
    /\ query.pc = "done"
    /\ query.token = "wrong"
    /\ query.configured = "secret"
    /\ \E i \in 1..Len(stream) : stream[i].kind = "object"
    /\ "status" \in DOMAIN report


\* C37: stream order is preserved into the store: when one identity occurs
\* several times in a stream imported in upsert mode, the stored row after the
\* run holds the values of its last occurrence in the stream.
C37_LastOccurrenceWins ==
    (/\ closePc = "responded"
     /\ ~rerun
     /\ insertMode
     /\ faults = 0
     /\ errors = <<>>
     /\ \A f \in DOMAIN flights : flights[f].pc = "settled")
        => \A i \in 1..Len(stream) :
              (/\ stream[i].kind = "object"
               /\ \A j \in (i + 1)..Len(stream) :
                     stream[j].kind = "object"
                         => IdentityOf(stream[j]) # IdentityOf(stream[i]))
                  => /\ IdentityOf(stream[i]) \in DOMAIN store
                     /\ store[IdentityOf(stream[i])].payload = stream[i]
                     /\ store[IdentityOf(stream[i])].title = Nullish(stream[i].title)


\* C38: once the CSV import has sent its response, successful or failed, the
\* run performs no further write to the store.
C38_NoWriteAfterResponse ==
    [][(csv.pc # "idle" /\ csv.promise # "pending") => store' = store]_vars


\* C39: every import run terminates with a response: when the input stream
\* ends or errors and every sink call returns, the import eventually sends its
\* one response.
C39_RunEndsWithResponse ==
    <>(closePc = "responded" /\ report # NoReport)

====
